---- MODULE Spec2Model ----
(***************************************************************************)
(* Model of the CDEK carrier client (src/src/cdek/api.js) and of its       *)
(* credential cache CDEKAuth (src/unnamed/part_000).                       *)
(*                                                                         *)
(* Each caller runs one client operation at a time.  An async function     *)
(* runs without interruption up to its next `await` of network I/O, so one *)
(* action of the model is one such run: from the invocation (or from the   *)
(* resolution of the awaited promise) to the next fetch / body read, or to *)
(* the return or throw that ends the invocation.                           *)
(*                                                                         *)
(* Time is Date.now() in milliseconds.  Texts (error bodies, messages) are *)
(* sequences of one-character strings; a literal of the source that holds  *)
(* no digit is kept as one element.                                        *)
(***************************************************************************)
EXTENDS Integers, Sequences, FiniteSets, TLC

(***************************************************************************)
(* Bounds of the model.                                                    *)
(***************************************************************************)
\* number of clock steps the model lets Date.now() advance
MaxTicks == 2

Callers == {"c1", "c2"}
\* the caller that runs the operations of the client
ClientCallers == {"c1"}

(***************************************************************************)
(* Program constants.                                                      *)
(***************************************************************************)
\* part_000:138  - 60000
SafetyMargin == 60000
\* part_000:137  (data.expires_in || 3600)
DefaultExpiresIn == 3600
\* part_000:137  * 1000
MsPerSecond == 1000

\* this.token = null (part_000:100)
null == "null"
\* this.tokenExpiresAt = null (part_000:101)
nullTime == -1
\* data.expires_in missing from the token response (undefined)
undefined == -1

\* Date.now() when the process starts, and the step of the model's clock
StartNow == 2 * SafetyMargin
ClockStep == SafetyMargin \div 2
MaxNow == StartNow + MaxTicks * ClockStep

\* what the token endpoint may answer on success
AccessTokens == {"tokA", "tokB"}
ExpiresInValues == {undefined, 0, 90, 150}

\* HTTP statuses the carrier may answer with when response.ok is false
ErrorStatuses == {404, 500}

\* error bodies: valid JSON, and plain text that mentions 404
ErrorBodies == { <<"{", "}">>, <<"n", "o", "4", "0", "4">> }

(***************************************************************************)
(* Text helpers.                                                           *)
(***************************************************************************)
DigitChars == <<"0", "1", "2", "3", "4", "5", "6", "7", "8", "9">>

\* template-literal conversion of a three-digit HTTP status, `${response.status}`
StatusText(n) ==
    << DigitChars[(n \div 100) + 1], DigitChars[((n \div 10) % 10) + 1], DigitChars[(n % 10) + 1] >>

\* String.prototype.includes
Includes(text, sub) ==
    \E i \in 1..(Len(text) - Len(sub) + 1) : SubSeq(text, i, i + Len(sub) - 1) = sub

IsDigit(c) == \E i \in 1..Len(DigitChars) : DigitChars[i] = c

\* JSON.parse succeeds: of the texts of the model, the empty object and
\* number literals are JSON
JSONparses(text) ==
    \/ text = <<"{", "}">>
    \/ /\ Len(text) > 0
       /\ \A i \in 1..Len(text) : IsDigit(text[i])
       /\ (Len(text) > 1 => text[1] # "0")

\* variant: the error body is always wrapped as { message: errorText }
ErrorDataAlwaysWrapped(errorText) == [parsed |-> FALSE, value |-> errorText]

\* api.js:52-57  errorData: the parsed body, or { message: errorText }
ErrorData(errorText) ==
    IF JSONparses(errorText)
    THEN [parsed |-> TRUE, value |-> errorText]
    ELSE [parsed |-> FALSE, value |-> errorText]

\* JSON.stringify(errorData)
JSONstringify(errorData) ==
    IF errorData.parsed
    THEN errorData.value
    ELSE <<"{\"message\":\"">> \o errorData.value \o <<"\"}">>

\* part_000:130  `Ошибка авторизации: ${response.status} ${errorText}`
AuthMessage(status, errorText) ==
    <<"Auth error: ">> \o StatusText(status) \o <<" ">> \o errorText

\* api.js:65  `CDEK API Error (${response.status}): ${JSON.stringify(errorData)}`
ApiMessage(status, errorText) ==
    <<"CDEK API Error (">> \o StatusText(status) \o <<"): ">> \o JSONstringify(ErrorData(errorText))

\* the message of the TypeError a rejected fetch() throws
FetchMessage == <<"fetch failed">>

(***************************************************************************)
(* JavaScript values given as package dimensions, and Number() of them.    *)
(***************************************************************************)
NumberValue(n) == [t |-> "number", n |-> n, s |-> <<>>]
StringValue(s) == [t |-> "string", n |-> 0, s |-> s]
UndefinedValue == [t |-> "undefined", n |-> 0, s |-> <<>>]
NaN == [t |-> "NaN", n |-> 0, s |-> <<>>]
NullValue == [t |-> "null", n |-> 0, s |-> <<>>]

DigitValue(c) == CHOOSE d \in 0..9 : DigitChars[d + 1] = c

RECURSIVE ParseDigits(_)
ParseDigits(s) ==
    IF Len(s) = 0 THEN 0
    ELSE 10 * ParseDigits(SubSeq(s, 1, Len(s) - 1)) + DigitValue(s[Len(s)])

\* Number(v): a number is itself, a string of digits its value, the empty
\* string 0, any other string and undefined NaN
Number(v) ==
    CASE v.t = "number" -> v
      [] v.t = "string" ->
            IF \A i \in 1..Len(v.s) : IsDigit(v.s[i])
            THEN NumberValue(ParseDigits(v.s))
            ELSE NaN
      [] OTHER -> NaN

isNaN(v) == v.t = "NaN"

RECURSIVE DigitPrefix(_)
\* the leading digits of a text
DigitPrefix(s) ==
    IF s = <<>> \/ ~IsDigit(Head(s)) THEN <<>> ELSE <<Head(s)>> \o DigitPrefix(Tail(s))

\* parseInt(v): a number is itself, a string the number of its leading
\* digits, and NaN without any; undefined gives NaN
parseInt(v) ==
    CASE v.t = "number" -> v
      [] v.t = "string" -> IF DigitPrefix(v.s) = <<>> THEN NaN
                           ELSE NumberValue(ParseDigits(DigitPrefix(v.s)))
      [] OTHER -> NaN

RECURSIVE NumberText(_)
\* the decimal digits of a natural number
NumberText(n) ==
    IF n < 10 THEN <<DigitChars[n + 1]>>
    ELSE NumberText(n \div 10) \o <<DigitChars[(n % 10) + 1]>>

\* String(v): a string is itself, a number its decimal text
String(v) ==
    CASE v.t = "string" -> v
      [] v.t = "number" -> StringValue(NumberText(v.n))
      [] v.t = "NaN" -> StringValue(<<"N", "a", "N">>)
      [] OTHER -> StringValue(<<"undefined">>)

\* JavaScript truthiness of a value
TruthyValue(v) ==
    CASE v.t = "number" -> v.n # 0
      [] v.t = "string" -> Len(v.s) > 0
      [] OTHER -> FALSE

\* JSON.stringify of a number: NaN is written as null
JSONNumber(v) == IF v.t = "NaN" THEN NullValue ELSE v

(***************************************************************************)
(* Request bodies and carrier answers.                                     *)
(***************************************************************************)
\* the body handed to request(): the code of from_location and to_location,
\* their address ("" when the location has no address member), the packages,
\* shipment_point and delivery_point, and the names of the other members of
\* the body; a field the body does not have is undefined
NoBody ==
    [ path           |-> "",
      from_location  |-> UndefinedValue,
      from_address   |-> "",
      to_location    |-> UndefinedValue,
      to_address     |-> "",
      packages       |-> <<>>,
      shipment_point |-> UndefinedValue,
      delivery_point |-> UndefinedValue,
      members        |-> {} ]

\* a tariff of the tarifflist answer; tariff_description may be missing ("")
Tariff(code, name, description, mode) ==
    [tariff_code |-> code, tariff_name |-> name, tariff_description |-> description,
     delivery_mode |-> mode]

\* what the tarifflist endpoint may answer: no tariff_codes, none, one, two,
\* and the same tariff twice
QuoteAnswers ==
    {[has |-> h, tariff_codes |-> t, offices |-> <<>>] :
        h \in {TRUE},
        t \in { <<>>,
                <<Tariff(136, "parcel", "", 1)>>,
                <<Tariff(136, "parcel", "", 1), Tariff(137, "door", "to door", 2)>>,
                <<Tariff(136, "parcel", "", 1), Tariff(136, "parcel", "", 1)>> }}
        \cup {[has |-> FALSE, tariff_codes |-> <<>>, offices |-> <<>>]}

\* an answer whose content no operation of the model reads
PlainAnswer == [has |-> FALSE, tariff_codes |-> <<>>, offices |-> <<>>]

\* a pickup point of the deliverypoints answer
Office(code, is_ltl) == [code |-> StringValue(<<code>>), is_ltl |-> is_ltl]

\* what the deliverypoints endpoint may answer: no point, points without
\* the LTL flag, and points of which the first, a later one or several
\* have it
OfficeAnswers ==
    {[has |-> FALSE, tariff_codes |-> <<>>, offices |-> o] :
        o \in { <<>>,
                <<Office("A", FALSE)>>,
                <<Office("A", FALSE), Office("B", TRUE)>>,
                <<Office("A", TRUE), Office("B", TRUE)>>,
                <<Office("A", FALSE), Office("B", TRUE), Office("C", TRUE)>> }}

\* the options of getTariffs: a city code, 0 when the option is missing
TariffOptions == [fromCityCode : {0, 137}, toCityCode : {0, 138}]

(***************************************************************************)
(* Inputs of the operations.                                               *)
(***************************************************************************)
DimValues == { NumberValue(10), StringValue(<<"1", "0">>), StringValue(<<"a", "b">>), UndefinedValue }

\* packages with at most one dimension that is not the plain number
GoodPackage ==
    [weight |-> NumberValue(1000), length |-> NumberValue(10),
     width |-> NumberValue(10), height |-> NumberValue(10)]

Packages ==
    {[GoodPackage EXCEPT !.weight = v] : v \in DimValues}
        \cup {[GoodPackage EXCEPT !.length = v] : v \in DimValues}
        \cup {[GoodPackage EXCEPT !.width = v] : v \in DimValues}
        \cup {[GoodPackage EXCEPT !.height = v] : v \in DimValues}

PackageLists ==
    {<<>>} \cup {<<k>> : k \in Packages}
           \cup {<<GoodPackage, k>> : k \in {[GoodPackage EXCEPT !.width = v] : v \in DimValues}}

\* location codes, as a number and as a string
FromCodes == {NumberValue(44), StringValue(<<"4", "4">>)}
ToCodes == {NumberValue(270), StringValue(<<"2", "7", "0">>)}

\* an address of a location ("" when none is given), without blanks around it
Addresses == {"", "Lenina 1"}

\* a location: its code and its address
Location(code, address) == [code |-> code, address |-> address]

FromLocations == {Location(c, a) : c \in FromCodes, a \in Addresses}
ToLocations == {Location(c, a) : c \in ToCodes, a \in Addresses}

\* the origins passed to calculateDeliveryByTariff: its caller in
\* routes/delivery.js always passes the address of the origin
AddressedFromLocations == {l \in FromLocations : l.address # ""}

\* the optional parameters a caller of calculateDelivery supplies: none, one,
\* all of them
OptionalInputs == {{}, {"lang"}, {"date", "type", "currency", "lang"}}

\* a pickup point given by the caller, or none
Points == {UndefinedValue, StringValue(<<"MSK5">>)}

\* the destinations passed to calculateDeliveryByTariff: a pickup point, or
\* else a location with an address
Destinations ==
    {to \in [location : ToLocations, point : Points] :
        TruthyValue(to.point) <=> to.location.address = ""}

\* a complete order
GoodOrder ==
    [ number        |-> "ORD-1",
      tariffCode    |-> 136,
      recipient     |-> [defined |-> TRUE, name |-> "Ann"],
      packages      |-> [defined |-> TRUE, list |-> <<GoodPackage>>],
      deliveryPoint |-> "MSK123",
      toLocation    |-> [defined |-> TRUE, code |-> NumberValue(270)] ]

\* orders with at most one of number, tariffCode, recipient and packages
\* missing or wrong: a missing value is the empty string, the number 0, or
\* defined |-> FALSE
OrderContents ==
    {GoodOrder, [GoodOrder EXCEPT !.number = ""], [GoodOrder EXCEPT !.tariffCode = 0]}
        \cup {[GoodOrder EXCEPT !.recipient = r] :
                 r \in {[defined |-> FALSE, name |-> ""], [defined |-> TRUE, name |-> ""]}}
        \cup {[GoodOrder EXCEPT !.packages = k] :
                 k \in {[defined |-> FALSE, list |-> <<>>], [defined |-> TRUE, list |-> <<>>],
                        [defined |-> TRUE,
                         list |-> <<[GoodPackage EXCEPT !.weight = StringValue(<<"a", "b">>)]>>],
                        [defined |-> TRUE,
                         list |-> <<GoodPackage, [GoodPackage EXCEPT !.height = UndefinedValue]>>]}}

\* the parameters of createOrder: each content with each destination
OrderParams ==
    {[o EXCEPT !.deliveryPoint = d, !.toLocation = t] :
        o \in OrderContents,
        d \in {"", "MSK123"},
        t \in {[defined |-> FALSE, code |-> UndefinedValue]}
                  \cup {[defined |-> TRUE, code |-> c] : c \in ToCodes}}

\* the body of POST /calculate-by-tariff: tariffCode 0 and weight undefined
\* are missing fields; the city codes 44 and 270, fromAddress, length, width
\* and height are always present
NoRouteRequest ==
    [tariffCode |-> 0, shipmentPoint |-> UndefinedValue, deliveryPoint |-> UndefinedValue,
     toAddress |-> "", weight |-> UndefinedValue]

RouteRequests ==
    [ tariffCode    : {136, 751},
      shipmentPoint : Points,
      deliveryPoint : Points,
      toAddress     : {"", "addr"},
      weight        : {NumberValue(10), StringValue(<<"a", "b">>)} ]
        \cup {[NoRouteRequest EXCEPT !.tariffCode = 751],
              [NoRouteRequest EXCEPT !.weight = NumberValue(10)]}

\* a variable of the environment: not set, set to nothing, set
EnvValues == {"undefined", "", "set"}

\* an Authorization header supplied to request() by its caller, or none
CallerAuthorizations == {"none", "Basic caller"}

(***************************************************************************)
(* State.                                                                  *)
(***************************************************************************)
VARIABLES
    token,            \* CDEKAuth.token
    tokenExpiresAt,   \* CDEKAuth.tokenExpiresAt
    now,              \* Date.now()
    call,             \* per caller: the frame of its current (or last) invocation
    sinceReset,       \* history: "clean" from resetToken() until the cache is written or read
    client            \* the CDEKApiClient of routes/delivery.js and what it was constructed with

vars == <<token, tokenExpiresAt, now, call, sinceReset, client>>

\* what a frame notes of the input of its operation: packages with a
\* non-numeric dimension, an order with a required part missing, and the
\* destination of an order ("point", "location", "both", "none"), and a
\* quote that was passed more than codes and packages
NothingGiven ==
    [nonNumeric |-> FALSE, incomplete |-> FALSE, destination |-> "na", beyond |-> FALSE]

NoResult ==
    [kind |-> "none", status |-> 0, body |-> <<>>, message |-> <<>>, token |-> "none",
     data |-> <<>>]

\* the frame of an invocation that has not run yet
Fresh(op) ==
    [ pc      |-> "idle",      \* where the invocation is suspended
      op      |-> op,          \* the operation invoked
      phase   |-> "direct",    \* getTariffs: "direct" GET or "fallback" quote
      hdrAuth |-> "none",      \* Authorization header supplied by the caller of request()
      status  |-> 0,           \* status of the response whose body is being read
      nGet    |-> 0,           \* getToken() calls made by this invocation
      nTok    |-> 0,           \* token-exchange fetches issued by this invocation
      nApi    |-> 0,           \* carrier fetches issued by this invocation
      cached  |-> FALSE,       \* the latest getToken() returned the cached token
      tokRet  |-> "none",      \* what the latest getToken() returned
      bearer  |-> "none",      \* Authorization of the latest carrier fetch
      direct  |-> NoResult,    \* getTariffs: the error the direct GET threw
      options |-> [fromCityCode |-> 0, toCityCode |-> 0],   \* getTariffs: its options
      sent    |-> NoBody,      \* the body of the latest request()
      answer  |-> PlainAnswer, \* what the latest request() returned
      req     |-> NoRouteRequest,            \* route: the body of the HTTP request
      finalShipmentPoint |-> UndefinedValue, \* route: the pickup point of the origin
      finalDeliveryPoint |-> UndefinedValue, \* route: the pickup point of the destination
      failed  |-> {},          \* route: the lookups that threw
      given   |-> NothingGiven, \* what the caller passed, as far as the frame notes it
      afterReset |-> "na",     \* op getToken: sinceReset as the call found it
      sawInflight |-> FALSE,   \* op getToken: another exchange was in flight at the call
      result  |-> NoResult ]

\* JavaScript truthiness of this.token and of this.tokenExpiresAt
Truthy(t) == t \notin {null, "undefined", ""}
TruthyTime(t) == t # nullTime /\ t # 0

\* variant: a constructor that does not look at the password
CDEKAuthThrowsNoSecret(apiUrl, account, securePassword) ==
    IF ~Truthy(apiUrl) THEN "CDEK_API_URL is not set"
    ELSE IF ~Truthy(account) THEN "CDEK_ACCOUNT is not set"
    ELSE ""

\* part_000:86-95  the message the constructor of CDEKAuth throws, "" when
\* it throws nothing
CDEKAuthThrows(apiUrl, account, securePassword) ==
    IF ~Truthy(apiUrl) THEN "CDEK_API_URL is not set"
    ELSE IF ~Truthy(account) THEN "CDEK_ACCOUNT is not set"
    ELSE IF ~Truthy(securePassword) THEN "CDEK_SECURE_PASSWORD is not set"
    ELSE ""

\* before `new CDEKApiClient(...)` has run
NoClient ==
    [state |-> "none", apiUrl |-> "", account |-> "", securePassword |-> "", error |-> ""]

\* api.js:8-11, part_000:86-104  new CDEKApiClient(apiUrl, account,
\* securePassword): the constructor of CDEKAuth throws through it, and no
\* client exists then; `error` is what was thrown
CDEKApiClient(apiUrl, account, securePassword) ==
    [ state          |-> IF CDEKAuthThrows(apiUrl, account, securePassword) # ""
                         THEN "failed" ELSE "built",
      apiUrl         |-> apiUrl,
      account        |-> account,
      securePassword |-> securePassword,
      error          |-> CDEKAuthThrows(apiUrl, account, securePassword) ]

\* the state after a construction with all of the configuration present
Init ==
    /\ token = null
    /\ tokenExpiresAt = nullTime
    /\ now = StartNow
    /\ call = [p \in Callers |-> Fresh("none")]
    /\ sinceReset = "na"
    /\ client = CDEKApiClient("https://api.cdek.ru/v2", "account", "secret")

\* the state before the construction: the object has no fields yet
InitConstruct ==
    /\ token = "undefined"
    /\ tokenExpiresAt = undefined
    /\ now = StartNow
    /\ call = [p \in Callers |-> Fresh("none")]
    /\ sinceReset = "na"
    /\ client = NoClient

(***************************************************************************)
(* CDEKAuth (src/unnamed/part_000).                                        *)
(***************************************************************************)

\* variants of the validity test: the comparison turned round, the margin
\* subtracted a second time, and the comparison made inclusive
TokenValidInverted ==
    Truthy(token) /\ TruthyTime(tokenExpiresAt) /\ now > tokenExpiresAt

TokenValidMarginTwice ==
    Truthy(token) /\ TruthyTime(tokenExpiresAt) /\ now < tokenExpiresAt - SafetyMargin

TokenValidInclusive ==
    Truthy(token) /\ TruthyTime(tokenExpiresAt) /\ now <= tokenExpiresAt

\* part_000:110  this.token && this.tokenExpiresAt && Date.now() < this.tokenExpiresAt
TokenValid ==
    Truthy(token) /\ TruthyTime(tokenExpiresAt) /\ now < tokenExpiresAt

\* part_000:137  (data.expires_in || 3600) * 1000
ExpiresIn(expires_in) ==
    (IF expires_in = undefined \/ expires_in = 0 THEN DefaultExpiresIn ELSE expires_in) * MsPerSecond

\* part_000:138  Date.now() + expiresIn - 60000
ExpiresAt(expires_in) == now + ExpiresIn(expires_in) - SafetyMargin

TokenResult(t) == [NoResult EXCEPT !.kind = "token", !.token = t]

AuthError(status, errorText) ==
    [NoResult EXCEPT !.kind = "AuthError", !.status = status, !.body = errorText,
                     !.message = AuthMessage(status, errorText)]

FetchError == [NoResult EXCEPT !.kind = "FetchError", !.message = FetchMessage]

ExchangeInFlight(p) ==
    \E q \in Callers \ {p} : call[q].pc \in {"tokenFetch", "tokenText", "tokenJson"}

\* part_000:108-126  getToken() from its call to its return of the cached
\* token or to the await of the token-exchange fetch
GetTokenCall(p, f) ==
    LET g == [f EXCEPT !.nGet = @ + 1,
                       !.afterReset = IF f.op = "getToken" THEN sinceReset ELSE "na"] IN
    IF TokenValid
    THEN [g EXCEPT !.cached = TRUE, !.tokRet = token, !.sawInflight = FALSE]
    ELSE [g EXCEPT !.cached = FALSE, !.tokRet = "none", !.nTok = @ + 1,
                   !.pc = "tokenFetch",
                   !.sawInflight = f.op = "getToken" /\ ExchangeInFlight(p)]

(***************************************************************************)
(* CDEKApiClient.request (src/src/cdek/api.js).                            *)
(***************************************************************************)
\* api.js:27-48  the carrier fetch: the caller's headers override the defaults
JSONBody(body) ==
    [body EXCEPT !.packages =
        [i \in 1..Len(body.packages) |->
            [weight |-> JSONNumber(body.packages[i].weight),
             length |-> JSONNumber(body.packages[i].length),
             width |-> JSONNumber(body.packages[i].width),
             height |-> JSONNumber(body.packages[i].height)]]]

Fetch(f) ==
    [f EXCEPT !.pc = "apiFetch", !.nApi = @ + 1, !.sent = JSONBody(f.sent),
              !.bearer = IF f.hdrAuth = "none" THEN f.tokRet ELSE f.hdrAuth]

\* variant: request() that does not wait for getToken() to resolve
RequestNoAwait(p, f) == Fetch(GetTokenCall(p, f))

\* api.js:19-48  request() from its call to its first await of the network
Request(p, f) ==
    LET g == GetTokenCall(p, f) IN
    IF g.cached THEN Fetch(g) ELSE g

ApiError(status, errorText) ==
    [NoResult EXCEPT !.kind = "ApiError", !.status = status, !.body = errorText,
                     !.message = ApiMessage(status, errorText)]

JsonResult == [NoResult EXCEPT !.kind = "json"]

\* api.js:335  error.message && error.message.includes('404')
IsNotFound(error) ==
    Len(error.message) > 0 /\ Includes(error.message, <<"4", "0", "4">>)

\* api.js:154-171  packages.map(...): every dimension through Number()
PackagesArray(packages) ==
    [i \in 1..Len(packages) |->
        [weight |-> Number(packages[i].weight), length |-> Number(packages[i].length),
         width |-> Number(packages[i].width), height |-> Number(packages[i].height)]]

\* variant: calculateDelivery with the address lines of api.js:140-142 and
\* 148-150 put back
CalculateDeliveryBodyWithAddress(fromLocation, toLocation, packages, optional) ==
    [NoBody EXCEPT !.path = "/calculator/tarifflist",
                   !.from_location = String(fromLocation.code),
                   !.from_address = fromLocation.address,
                   !.to_location = String(toLocation.code),
                   !.to_address = toLocation.address,
                   !.packages = PackagesArray(packages),
                   !.members = optional]

\* api.js:116-126, 136-147, 179-186  the body of calculateDelivery: date,
\* type, currency and lang are taken from the parameters and not used
CalculateDeliveryBody(fromLocation, toLocation, packages, optional) ==
    [NoBody EXCEPT !.path = "/calculator/tarifflist",
                   !.from_location = String(fromLocation.code),
                   !.to_location = String(toLocation.code),
                   !.packages = PackagesArray(packages)]

\* api.js:339-340  options.fromCityCode || 44, options.toCityCode || 270
FromCityCode(options) == IF options.fromCityCode # 0 THEN options.fromCityCode ELSE 44

ToCityCodeDefaultOrigin(options) == IF options.toCityCode # 0 THEN options.toCityCode ELSE 44

ToCityCode(options) == IF options.toCityCode # 0 THEN options.toCityCode ELSE 270

(***************************************************************************)
(* What the operations do before their request: validation and bodies.     *)
(***************************************************************************)
ValidationError(text) ==
    [NoResult EXCEPT !.kind = "ValidationError", !.message = <<text>>]

Rejected(f, text) == [f EXCEPT !.pc = "done", !.result = ValidationError(text)]

\* a dimension as a caller may pass it that is not a number: a text that
\* is no numeral, or nothing
NonNumeric(v) == v \in {StringValue(<<"a", "b">>), UndefinedValue}

\* some package was passed with such a dimension
SomeNonNumeric(packages) ==
    \E i \in 1..Len(packages) :
        \/ NonNumeric(packages[i].weight) \/ NonNumeric(packages[i].length)
        \/ NonNumeric(packages[i].width) \/ NonNumeric(packages[i].height)

\* what the frame notes of a list of packages
GivenPackages(packages) == [NothingGiven EXCEPT !.nonNumeric = SomeNonNumeric(packages)]

\* what the frame notes of the parameters of calculateDelivery: its packages,
\* and whether anything beyond codes and packages was passed
GivenQuote(fromLocation, toLocation, packages, optional) ==
    [GivenPackages(packages) EXCEPT
        !.beyond = fromLocation.address # "" \/ toLocation.address # "" \/ optional # {}]

\* what the frame notes of the parameters of createOrder
GivenOrder(params) ==
    [ nonNumeric  |-> params.packages.defined /\ SomeNonNumeric(params.packages.list),
      incomplete  |-> \/ params.number = ""
                      \/ params.tariffCode = 0
                      \/ ~params.recipient.defined
                      \/ params.recipient.name = ""
                      \/ ~params.packages.defined
                      \/ params.packages.list = <<>>,
      destination |-> IF params.deliveryPoint # ""
                      THEN (IF params.toLocation.defined THEN "both" ELSE "point")
                      ELSE (IF params.toLocation.defined THEN "location" ELSE "none"),
      beyond      |-> FALSE ]

\* an operation that throws `thrown` before its request, or else calls
\* request() with the body `sent`; the frame notes `given`
Entered(p, op, given, thrown, sent) ==
    LET f == [Fresh(op) EXCEPT !.given = given] IN
    IF thrown # "" THEN Rejected(f, thrown)
    ELSE Request(p, [f EXCEPT !.sent = sent])

\* api.js:155-171, 267-283  packages.map(...): some dimension is NaN
BadDimensions(packages) ==
    \E i \in 1..Len(packages) :
        \/ isNaN(Number(packages[i].weight))
        \/ isNaN(Number(packages[i].length))
        \/ isNaN(Number(packages[i].width))
        \/ isNaN(Number(packages[i].height))

\* api.js:155-175  the message calculateDelivery throws before its request,
\* "" when it throws nothing
CalculateDeliveryThrows(packages) ==
    IF BadDimensions(packages) THEN "bad package numbers"
    ELSE IF Len(packages) = 0 THEN "packages must not be empty"
    ELSE ""

\* api.js:267-283
CalculateDeliveryByTariffThrows(packages) ==
    IF BadDimensions(packages) THEN "bad package numbers" ELSE ""

\* variant: createOrder without the check of the destination
CreateOrderThrowsNoDestination(params) ==
    IF params.number = "" THEN "number is required"
    ELSE IF params.tariffCode = 0 THEN "tariffCode is required"
    ELSE IF ~params.recipient.defined \/ params.recipient.name = "" THEN "recipient is required"
    ELSE IF ~params.packages.defined \/ Len(params.packages.list) = 0 THEN "packages are required"
    ELSE ""

\* api.js:395-406, 435-449
CreateOrderThrows(params) ==
    IF params.number = "" THEN "number is required"
    ELSE IF params.tariffCode = 0 THEN "tariffCode is required"
    ELSE IF ~params.recipient.defined \/ params.recipient.name = "" THEN "recipient is required"
    ELSE IF ~params.packages.defined \/ Len(params.packages.list) = 0 THEN "packages are required"
    ELSE IF params.deliveryPoint = "" /\ ~params.toLocation.defined
         THEN "deliveryPoint or toLocation is required"
    ELSE ""

\* variant: the location codes go into the body as they were supplied
CalculateDeliveryByTariffBodyRawCodes(fromLocation, toLocation, packages, shipmentPoint, deliveryPoint) ==
    [NoBody EXCEPT !.path = "/calculator/tariff",
                   !.members = {"tariff_code", "date", "currency", "lang"},
                   !.from_location = fromLocation.code,
                   !.from_address = fromLocation.address,
                   !.to_location = toLocation.code,
                   !.to_address = toLocation.address,
                   !.packages = PackagesArray(packages),
                   !.shipment_point = IF TruthyValue(shipmentPoint) THEN String(shipmentPoint)
                                      ELSE UndefinedValue,
                   !.delivery_point = IF TruthyValue(deliveryPoint) THEN String(deliveryPoint)
                                      ELSE UndefinedValue]

\* api.js:246-258, 260-300  the body of calculateDeliveryByTariff
CalculateDeliveryByTariffBody(fromLocation, toLocation, packages, shipmentPoint, deliveryPoint) ==
    [NoBody EXCEPT !.path = "/calculator/tariff",
                   !.members = {"tariff_code", "date", "currency", "lang"},
                   !.from_location = String(fromLocation.code),
                   !.from_address = fromLocation.address,
                   !.to_location = String(toLocation.code),
                   !.to_address = toLocation.address,
                   !.packages = PackagesArray(packages),
                   !.shipment_point = IF TruthyValue(shipmentPoint) THEN String(shipmentPoint)
                                      ELSE UndefinedValue,
                   !.delivery_point = IF TruthyValue(deliveryPoint) THEN String(deliveryPoint)
                                      ELSE UndefinedValue]

\* variant: the order body keeps to_location next to delivery_point
CreateOrderBodyBoth(params) ==
    [NoBody EXCEPT !.path = "/orders",
                   !.members = {"type", "number", "tariff_code", "recipient"},
                   !.packages = PackagesArray(params.packages.list),
                   !.delivery_point = IF params.deliveryPoint # ""
                                      THEN StringValue(<<params.deliveryPoint>>)
                                      ELSE UndefinedValue,
                   !.to_location = IF params.toLocation.defined
                                   THEN String(params.toLocation.code)
                                   ELSE UndefinedValue]

\* api.js:408-449  the body of createOrder
CreateOrderBody(params) ==
    [NoBody EXCEPT !.path = "/orders",
                   !.members = {"type", "number", "tariff_code", "recipient"},
                   !.packages = PackagesArray(params.packages.list),
                   !.delivery_point = IF params.deliveryPoint # ""
                                      THEN StringValue(<<params.deliveryPoint>>)
                                      ELSE UndefinedValue,
                   !.to_location = IF params.deliveryPoint = "" /\ params.toLocation.defined
                                   THEN String(params.toLocation.code)
                                   ELSE UndefinedValue]

\* api.js:339-351  the fallback quote of getTariffs: calculateDelivery with the
\* default cities and one valid package, which goes straight to request()
Fallback(p, f) ==
    Request(p, [f EXCEPT !.phase = "fallback", !.hdrAuth = "none",
                         !.sent = CalculateDeliveryBody(
                                      Location(NumberValue(FromCityCode(f.options)), ""),
                                      Location(NumberValue(ToCityCode(f.options)), ""),
                                      <<GoodPackage>>, {})])

(***************************************************************************)
(* router.post('/calculate-by-tariff') (src/src/routes/delivery.js).       *)
(***************************************************************************)
\* the HTTP response of the route
Response(status, message) ==
    [NoResult EXCEPT !.kind = "response", !.status = status, !.message = message]

\* delivery.js:333-338  res.status(400)
RouteInvalid(f) == [f EXCEPT !.pc = "done", !.result = Response(400, <<"validation">>)]

\* delivery.js:452-458  the outer catch: res.status(500) with error.message
RouteFailed(f, error) == [f EXCEPT !.pc = "done", !.result = Response(500, error.message)]

\* delivery.js:431-450  res.json(formattedResult)
RouteAnswered(f) == [f EXCEPT !.pc = "done", !.result = Response(200, <<>>)]

\* delivery.js:351-354, 377-380  cdekClient.getOffices(...)
Lookup(p, f, phase) ==
    Request(p, [f EXCEPT !.phase = phase, !.sent = [NoBody EXCEPT !.path = "/deliverypoints"]])

\* delivery.js:414-421  the one package of the route, each dimension through
\* parseInt
RoutePackages(req) ==
    <<[weight |-> parseInt(req.weight), length |-> parseInt(NumberValue(10)),
       width |-> parseInt(NumberValue(10)), height |-> parseInt(NumberValue(10))]>>

\* delivery.js:400-426  cdekClient.calculateDeliveryByTariff(...), which
\* throws before its request or calls request()
Quote(p, f) ==
    LET packages == RoutePackages(f.req)
        thrown == CalculateDeliveryByTariffThrows(packages)
        g == [f EXCEPT !.phase = "quote"] IN
    IF thrown # "" THEN RouteFailed(g, ValidationError(thrown))
    ELSE Request(p, [g EXCEPT !.sent =
             CalculateDeliveryByTariffBody(Location(parseInt(NumberValue(44)), "Mira 2"),
                                           Location(parseInt(NumberValue(270)), f.req.toAddress),
                                           packages, f.finalShipmentPoint, f.finalDeliveryPoint)])

\* variant: the lookup of the destination point is made whenever no point
\* is known, address or not
DeliveryLookupIgnoresAddress(p, f) ==
    IF ~TruthyValue(f.finalDeliveryPoint) THEN Lookup(p, f, "to") ELSE Quote(p, f)

\* delivery.js:373-398  the lookup of the destination point, made when
\* neither a point nor an address of the destination is known
DeliveryLookup(p, f) ==
    IF ~TruthyValue(f.finalDeliveryPoint) /\ f.req.toAddress = ""
    THEN Lookup(p, f, "to")
    ELSE Quote(p, f)

\* delivery.js:345-372  the lookup of the origin point, made when none is
\* known
ShipmentLookup(p, f) ==
    IF ~TruthyValue(f.finalShipmentPoint) THEN Lookup(p, f, "from") ELSE DeliveryLookup(p, f)

\* variant: the first point is taken whatever its flag
SelectOfficeFirst(offices) == offices[1].code

\* delivery.js:358-367  the first point with is_ltl === true, else the first
SelectOffice(offices) ==
    IF \E i \in 1..Len(offices) : offices[i].is_ltl
    THEN offices[CHOOSE i \in 1..Len(offices) :
                    offices[i].is_ltl /\ \A j \in 1..(i - 1) : ~offices[j].is_ltl].code
    ELSE offices[1].code

\* delivery.js:357  a point is selected only from a non-empty answer
Found(point, offices) == IF Len(offices) > 0 THEN SelectOffice(offices) ELSE point

\* getOffices() returned: the point is kept and the handler goes on
LookedUp(p, f, answer) ==
    IF f.phase = "from"
    THEN DeliveryLookup(p, [f EXCEPT !.answer = answer,
                                     !.finalShipmentPoint = Found(@, answer.offices)])
    ELSE Quote(p, [f EXCEPT !.answer = answer,
                            !.finalDeliveryPoint = Found(@, answer.offices)])

\* variant: an error of getOffices() reaches the outer catch
LookupThrewPropagates(p, f, error) == RouteFailed(f, error)

\* delivery.js:369-371, 395-397  catch (err) { console.warn(...) }: the
\* handler goes on without the point
LookupThrew(p, f, error) ==
    LET g == [f EXCEPT !.failed = @ \cup {f.phase}] IN
    IF f.phase = "from" THEN DeliveryLookup(p, g) ELSE Quote(p, g)

\* an error thrown out of request(): getTariffs catches the error of its
\* direct GET (api.js:332-367), the route catches the errors of its lookups
\* and answers 500 on an error of its quote, every other operation lets it
\* through
Thrown(p, f, error) ==
    IF f.op = "getTariffs" /\ f.phase = "direct"
    THEN IF IsNotFound(error)
         THEN Fallback(p, [f EXCEPT !.direct = error])
         ELSE [f EXCEPT !.direct = error, !.pc = "done", !.result = error]
    ELSE IF f.op = "POST /calculate-by-tariff"
    THEN IF f.phase \in {"from", "to"} THEN LookupThrew(p, f, error) ELSE RouteFailed(f, error)
    ELSE [f EXCEPT !.pc = "done", !.result = error]

\* the value getToken() resolved with reaches its caller
Resolved(f, t) ==
    IF f.op = "getToken"
    THEN [f EXCEPT !.tokRet = t, !.pc = "done", !.result = TokenResult(t)]
    ELSE Fetch([f EXCEPT !.tokRet = t])

(***************************************************************************)
(* History bookkeeping shared by the actions.                              *)
(***************************************************************************)
Ready(p) == client.state = "built" /\ call[p].pc \in {"idle", "done"}

\* the step of caller p takes its frame to g; `invoked` when g is a new invocation
Step(p, g, invoked) ==
    /\ call' = [call EXCEPT ![p] = g]
    /\ sinceReset' = IF g.nGet > (IF invoked THEN 0 ELSE call[p].nGet) THEN "na" ELSE sinceReset

(***************************************************************************)
(* Operations.                                                             *)
(***************************************************************************)
\* routes/delivery.js:15-19  new CDEKApiClient(process.env.CDEK_API_URL,
\* process.env.CDEK_ACCOUNT, process.env.CDEK_SECURE_PASSWORD); part_000:
\* 97-103  a constructor that does not throw sets token and tokenExpiresAt
\* to null
NewCDEKApiClientOf(apiUrl, account, securePassword) ==
    /\ client.state = "none"
    /\ client' = CDEKApiClient(apiUrl, account, securePassword)
    /\ IF client'.state = "built"
       THEN token' = null /\ tokenExpiresAt' = nullTime
       ELSE UNCHANGED <<token, tokenExpiresAt>>
    /\ UNCHANGED <<now, call, sinceReset>>

NewCDEKApiClient ==
    \E apiUrl \in EnvValues, account \in EnvValues, securePassword \in EnvValues :
        NewCDEKApiClientOf(apiUrl, account, securePassword)

\* part_000:108  a caller calls auth.getToken()
GetToken(p) ==
    /\ Ready(p)
    /\ LET g == GetTokenCall(p, Fresh("getToken")) IN
       Step(p, IF g.cached THEN Resolved(g, g.tokRet) ELSE g, TRUE)
    /\ UNCHANGED <<client, token, tokenExpiresAt, now>>

\* variant: resetToken() that clears the expiry and keeps the token
ResetTokenKeepsToken ==
    /\ client.state = "built"
    /\ tokenExpiresAt' = nullTime
    /\ sinceReset' = "clean"
    /\ UNCHANGED <<client, token, now, call>>

\* part_000:151-154
ResetToken ==
    /\ client.state = "built"
    /\ token' = null
    /\ tokenExpiresAt' = nullTime
    /\ sinceReset' = "clean"
    /\ UNCHANGED <<client, now, call>>

\* part_000:116, 142-145  the token-exchange fetch rejects (no answer)
TokenFetchRejected(p) ==
    /\ call[p].pc = "tokenFetch"
    /\ Step(p, Thrown(p, call[p], FetchError), FALSE)
    /\ UNCHANGED <<client, token, tokenExpiresAt, now>>

\* part_000:116-133  the token-exchange fetch is answered: response.ok or not
TokenFetchAnswered(p) ==
    /\ call[p].pc = "tokenFetch"
    /\ \/ \E s \in ErrorStatuses :
              Step(p, [call[p] EXCEPT !.pc = "tokenText", !.status = s], FALSE)
       \/ Step(p, [call[p] EXCEPT !.pc = "tokenJson", !.status = 200], FALSE)
    /\ UNCHANGED <<client, token, tokenExpiresAt, now>>

TokenFetch(p) == TokenFetchRejected(p) \/ TokenFetchAnswered(p)

\* part_000:128-131, 142-145  the body of a rejected exchange was read
\* variant: a rejected exchange that drops the cached token
TokenTextClears(p, errorText) ==
    /\ call[p].pc = "tokenText"
    /\ Step(p, Thrown(p, call[p], AuthError(call[p].status, errorText)), FALSE)
    /\ token' = null
    /\ tokenExpiresAt' = nullTime
    /\ UNCHANGED <<client, now>>

TokenTextOf(p, errorText) ==
    /\ call[p].pc = "tokenText"
    /\ Step(p, Thrown(p, call[p], AuthError(call[p].status, errorText)), FALSE)
    /\ UNCHANGED <<client, token, tokenExpiresAt, now>>

TokenText(p) == \E errorText \in ErrorBodies : TokenTextOf(p, errorText)

\* variant: the response of an exchange is dropped when the cache already
\* holds a valid token (the first response wins)
TokenJsonFirstWins(p, access_token, expires_in) ==
    /\ call[p].pc = "tokenJson"
    /\ token' = IF TokenValid THEN token ELSE access_token
    /\ tokenExpiresAt' = IF TokenValid THEN tokenExpiresAt ELSE ExpiresAt(expires_in)
    /\ call' = [call EXCEPT ![p] = Resolved(call[p], token')]
    /\ sinceReset' = IF sinceReset = "clean" THEN "stored" ELSE sinceReset
    /\ UNCHANGED <<client, now>>

\* variant: the token of a response is stored and an expiry the cache
\* already holds is kept
TokenJsonKeepsExpiry(p, access_token, expires_in) ==
    /\ call[p].pc = "tokenJson"
    /\ token' = access_token
    /\ tokenExpiresAt' = IF TruthyTime(tokenExpiresAt) THEN tokenExpiresAt
                         ELSE ExpiresAt(expires_in)
    /\ call' = [call EXCEPT ![p] = Resolved(call[p], token')]
    /\ sinceReset' = IF sinceReset = "clean" THEN "stored" ELSE sinceReset
    /\ UNCHANGED <<client, now>>

\* part_000:133-141  the body of a successful exchange was read: it carried
\* access_token and expires_in
TokenJsonOf(p, access_token, expires_in) ==
    /\ call[p].pc = "tokenJson"
    /\ token' = access_token
    /\ tokenExpiresAt' = ExpiresAt(expires_in)
    /\ call' = [call EXCEPT ![p] = Resolved(call[p], token')]
    /\ sinceReset' = IF sinceReset = "clean" THEN "stored" ELSE sinceReset
    /\ UNCHANGED <<client, now>>

TokenJson(p) ==
    \E access_token \in AccessTokens, expires_in \in ExpiresInValues :
        TokenJsonOf(p, access_token, expires_in)

\* api.js:41  the carrier fetch rejects (no answer)
ApiFetchRejected(p) ==
    /\ call[p].pc = "apiFetch"
    /\ Step(p, Thrown(p, call[p], FetchError), FALSE)
    /\ UNCHANGED <<client, token, tokenExpiresAt, now>>

\* api.js:41-51, 68  the carrier fetch is answered: response.ok or not
ApiFetchAnswered(p) ==
    /\ call[p].pc = "apiFetch"
    /\ \/ \E s \in ErrorStatuses :
              Step(p, [call[p] EXCEPT !.pc = "apiText", !.status = s], FALSE)
       \/ Step(p, [call[p] EXCEPT !.pc = "apiJson", !.status = 200], FALSE)
    /\ UNCHANGED <<client, token, tokenExpiresAt, now>>

ApiFetch(p) == ApiFetchRejected(p) \/ ApiFetchAnswered(p)

\* api.js:50-66  the body of a carrier error was read
ApiTextOf(p, errorText) ==
    /\ call[p].pc = "apiText"
    /\ Step(p, Thrown(p, call[p], ApiError(call[p].status, errorText)), FALSE)
    /\ UNCHANGED <<client, token, tokenExpiresAt, now>>

ApiText(p) == \E errorText \in ErrorBodies : ApiTextOf(p, errorText)

\* api.js:354-362  (result.tariff_codes || []).map(...)
TariffList(answer) ==
    [i \in 1..Len(answer.tariff_codes) |->
        Tariff(answer.tariff_codes[i].tariff_code, answer.tariff_codes[i].tariff_name,
               answer.tariff_codes[i].tariff_description, answer.tariff_codes[i].delivery_mode)]

\* the answers the carrier may give to the request of frame f
Answers(f) ==
    IF f.op = "getTariffs" /\ f.phase = "fallback" THEN QuoteAnswers
    ELSE IF f.op = "POST /calculate-by-tariff" /\ f.phase \in {"from", "to"} THEN OfficeAnswers
    ELSE {PlainAnswer}

\* what the operation returns once request() returned the answer
Returned(p, f, answer) ==
    IF f.op = "getTariffs" /\ f.phase = "fallback"
    THEN [f EXCEPT !.pc = "done", !.answer = answer,
                   !.result = [JsonResult EXCEPT !.data = TariffList(answer)]]
    ELSE IF f.op = "POST /calculate-by-tariff"
    THEN IF f.phase \in {"from", "to"} THEN LookedUp(p, f, answer)
         ELSE RouteAnswered([f EXCEPT !.answer = answer])
    ELSE [f EXCEPT !.pc = "done", !.answer = answer, !.result = JsonResult]

\* api.js:68  the body of a carrier answer was read
ApiJsonOf(p, answer) ==
    /\ call[p].pc = "apiJson"
    /\ Step(p, Returned(p, call[p], answer), FALSE)
    /\ UNCHANGED <<client, token, tokenExpiresAt, now>>

ApiJson(p) == \E answer \in Answers(call[p]) : ApiJsonOf(p, answer)

\* api.js:19  a caller calls request() itself
RequestCall(p) ==
    /\ Ready(p)
    /\ \E h \in CallerAuthorizations :
           Step(p, Request(p, [Fresh("request") EXCEPT !.hdrAuth = h]), TRUE)
    /\ UNCHANGED <<client, token, tokenExpiresAt, now>>

\* api.js:78-87
SearchCities(p) ==
    /\ Ready(p)
    /\ Step(p, Request(p, Fresh("searchCities")), TRUE)
    /\ UNCHANGED <<client, token, tokenExpiresAt, now>>

\* api.js:95-105
GetOffices(p) ==
    /\ Ready(p)
    /\ Step(p, Request(p, Fresh("getOffices")), TRUE)
    /\ UNCHANGED <<client, token, tokenExpiresAt, now>>

\* api.js:116-201
CalculateDeliveryOf(p, fromLocation, toLocation, packages, optional) ==
    /\ Ready(p)
    /\ Step(p, Entered(p, "calculateDelivery",
                       GivenQuote(fromLocation, toLocation, packages, optional),
                       CalculateDeliveryThrows(packages),
                       CalculateDeliveryBody(fromLocation, toLocation, packages, optional)),
            TRUE)
    /\ UNCHANGED <<client, token, tokenExpiresAt, now>>

\* what calculateDelivery does with each input before its request
CalculateDeliveryCalls ==
    {[given |-> GivenQuote(fromLocation, toLocation, packages, optional),
      thrown |-> CalculateDeliveryThrows(packages),
      sent |-> IF CalculateDeliveryThrows(packages) # "" THEN NoBody
               ELSE CalculateDeliveryBody(fromLocation, toLocation, packages, optional)] :
        fromLocation \in FromLocations, toLocation \in ToLocations,
        packages \in PackageLists, optional \in OptionalInputs}

CalculateDelivery(p) ==
    /\ Ready(p)
    /\ \E c \in CalculateDeliveryCalls :
           Step(p, Entered(p, "calculateDelivery", c.given, c.thrown, c.sent), TRUE)
    /\ UNCHANGED <<client, token, tokenExpiresAt, now>>

\* api.js:213-311
CalculateDeliveryByTariffOf(p, fromLocation, toLocation, packages, shipmentPoint, deliveryPoint) ==
    /\ Ready(p)
    /\ Step(p, Entered(p, "calculateDeliveryByTariff", GivenPackages(packages),
                       CalculateDeliveryByTariffThrows(packages),
                       CalculateDeliveryByTariffBody(fromLocation, toLocation, packages,
                                                     shipmentPoint, deliveryPoint)), TRUE)
    /\ UNCHANGED <<client, token, tokenExpiresAt, now>>

\* what calculateDeliveryByTariff does with each input before its request
CalculateDeliveryByTariffCalls ==
    {[given |-> GivenPackages(packages),
      thrown |-> CalculateDeliveryByTariffThrows(packages),
      sent |-> IF CalculateDeliveryByTariffThrows(packages) # "" THEN NoBody
               ELSE CalculateDeliveryByTariffBody(fromLocation, to.location, packages,
                                                  shipmentPoint, to.point)] :
        fromLocation \in AddressedFromLocations, to \in Destinations,
        packages \in PackageLists, shipmentPoint \in Points}

CalculateDeliveryByTariff(p) ==
    /\ Ready(p)
    /\ \E c \in CalculateDeliveryByTariffCalls :
           Step(p, Entered(p, "calculateDeliveryByTariff", c.given, c.thrown, c.sent), TRUE)
    /\ UNCHANGED <<client, token, tokenExpiresAt, now>>

\* api.js:323-331  getTariffs() up to the await of its direct GET
GetTariffs(p) ==
    /\ Ready(p)
    /\ \E options \in TariffOptions :
           Step(p, Request(p, [Fresh("getTariffs") EXCEPT
                                   !.options = options,
                                   !.sent = [NoBody EXCEPT !.path = "/calculator/tariffs"]]), TRUE)
    /\ UNCHANGED <<client, token, tokenExpiresAt, now>>

\* api.js:383-457
CreateOrderOf(p, params) ==
    /\ Ready(p)
    /\ Step(p, Entered(p, "createOrder", GivenOrder(params),
                       CreateOrderThrows(params), CreateOrderBody(params)), TRUE)
    /\ UNCHANGED <<client, token, tokenExpiresAt, now>>

\* what createOrder does with each input before its request
CreateOrderCalls ==
    {[given |-> GivenOrder(params),
      thrown |-> CreateOrderThrows(params),
      sent |-> IF CreateOrderThrows(params) # "" THEN NoBody ELSE CreateOrderBody(params)] :
        params \in OrderParams}

CreateOrder(p) ==
    /\ Ready(p)
    /\ \E c \in CreateOrderCalls :
           Step(p, Entered(p, "createOrder", c.given, c.thrown, c.sent), TRUE)
    /\ UNCHANGED <<client, token, tokenExpiresAt, now>>

\* delivery.js:304-343  POST /calculate-by-tariff up to its first await or
\* its response
CalculateByTariffRouteOf(p, req) ==
    /\ Ready(p)
    /\ LET f == [Fresh("POST /calculate-by-tariff") EXCEPT
                    !.req = req,
                    !.finalShipmentPoint = req.shipmentPoint,
                    !.finalDeliveryPoint = req.deliveryPoint] IN
       Step(p, IF req.tariffCode = 0 \/ ~TruthyValue(req.weight) THEN RouteInvalid(f)
               ELSE IF parseInt(NumberValue(req.tariffCode)) = NumberValue(751)
                    THEN ShipmentLookup(p, f)
               ELSE Quote(p, f), TRUE)
    /\ UNCHANGED <<client, token, tokenExpiresAt, now>>

CalculateByTariffRoute(p) == \E req \in RouteRequests : CalculateByTariffRouteOf(p, req)

\* Date.now() advances
Tick ==
    /\ now + ClockStep <= MaxNow
    /\ now' = now + ClockStep
    /\ UNCHANGED <<client, token, tokenExpiresAt, call, sinceReset>>

(***************************************************************************)
(* The credential cache on its own: callers of getToken() and              *)
(* resetToken(), and the clock.                                            *)
(***************************************************************************)
NextAuth ==
    \/ \E p \in Callers : GetToken(p)
    \/ ResetToken
    \/ \E p \in Callers : TokenFetch(p)
    \/ \E p \in Callers : TokenText(p)
    \/ \E p \in Callers : TokenJson(p)
    \/ Tick

SpecAuth == Init /\ [][NextAuth]_vars

(***************************************************************************)
(* The construction of the client, and the credential cache after it.      *)
(***************************************************************************)
NextConstruct ==
    \/ NewCDEKApiClient
    \/ \E p \in Callers : GetToken(p)
    \/ ResetToken
    \/ \E p \in Callers : TokenFetch(p)
    \/ \E p \in Callers : TokenText(p)
    \/ \E p \in Callers : TokenJson(p)
    \/ Tick

SpecConstruct == InitConstruct /\ [][NextConstruct]_vars

(***************************************************************************)
(* The carrier client: one caller runs its operations one after the other, *)
(* and resetToken() may run at any time.                                   *)
(***************************************************************************)
Next ==
    \/ \E p \in ClientCallers : GetToken(p)
    \/ ResetToken
    \/ \E p \in ClientCallers : TokenFetch(p)
    \/ \E p \in ClientCallers : TokenText(p)
    \/ \E p \in ClientCallers : TokenJson(p)
    \/ \E p \in ClientCallers : RequestCall(p)
    \/ \E p \in ClientCallers : SearchCities(p)
    \/ \E p \in ClientCallers : GetOffices(p)
    \/ \E p \in ClientCallers : CalculateDelivery(p)
    \/ \E p \in ClientCallers : CalculateDeliveryByTariff(p)
    \/ \E p \in ClientCallers : GetTariffs(p)
    \/ \E p \in ClientCallers : CreateOrder(p)
    \/ \E p \in ClientCallers : ApiFetch(p)
    \/ \E p \in ClientCallers : ApiText(p)
    \/ \E p \in ClientCallers : ApiJson(p)
    \/ Tick

Spec == Init /\ [][Next]_vars

\* part_000:133-143  a token answer was read; which access token the server
\* issues makes no difference to the route, so one is taken
TokenJsonOne(p) ==
    \E expires_in \in ExpiresInValues :
        TokenJsonOf(p, CHOOSE t \in AccessTokens : TRUE, expires_in)

(***************************************************************************)
(* The HTTP route POST /calculate-by-tariff over the client: its lookups   *)
(* and its quote, with the token exchanges and carrier calls they make.    *)
(***************************************************************************)
NextRoute ==
    \/ \E p \in ClientCallers :
          \/ CalculateByTariffRoute(p)
          \/ CalculateDelivery(p)
          \/ CalculateDeliveryByTariff(p)
          \/ TokenFetch(p)
          \/ TokenText(p)
          \/ TokenJsonOne(p)
          \/ ApiFetch(p)
          \/ ApiText(p)
          \/ ApiJson(p)
    \/ Tick

SpecRoute == Init /\ [][NextRoute]_vars

(***************************************************************************)
(* Properties of the credential cache.                                     *)
(***************************************************************************)

\* C1: whenever the cache holds a token and now < stored expiry - 60 s, a
\* getToken() call returns exactly the cached token, issues no token
\* exchange, and leaves the cached token and expiry as they were.
C1_CachedTokenReturned ==
    [][\A p \in Callers :
          (GetToken(p) /\ Truthy(token) /\ now < tokenExpiresAt - SafetyMargin)
              => /\ call'[p].pc = "done"
                 /\ call'[p].result = TokenResult(token)
                 /\ call'[p].nTok = 0
                 /\ token' = token
                 /\ tokenExpiresAt' = tokenExpiresAt]_vars

C1_Witness ==
    \E p \in Callers :
        /\ call[p].op = "getToken" /\ call[p].pc = "done" /\ call[p].cached
        /\ call[p].nTok = 0
        /\ call[p].result.token = token
        /\ now < tokenExpiresAt - SafetyMargin

\* C2 as stated: once resetToken() has run the cache is empty, and the next
\* getToken() invoked, whatever exchanges were in flight, performs a token
\* exchange instead of returning a cached token.
C2_Original ==
    /\ sinceReset = "clean" => (token = null /\ tokenExpiresAt = nullTime)
    /\ \A p \in Callers : call[p].afterReset # "na" => ~call[p].cached

\* C2 amended: once resetToken() has run the cache holds no token and no
\* expiry until an exchange stores its response, and the next getToken()
\* invoked performs a token exchange unless an exchange that was already in
\* flight stored its response after the reset.
C2_ResetForcesExchange ==
    /\ sinceReset = "clean" => (token = null /\ tokenExpiresAt = nullTime)
    /\ \A p \in Callers :
          call[p].afterReset = "clean" => (~call[p].cached /\ call[p].nTok = 1)

C2_Witness ==
    \E p \in Callers :
        /\ call[p].afterReset = "clean" /\ call[p].op = "getToken"
        /\ call[p].pc = "done" /\ call[p].result.kind = "token"
        /\ \E q \in Callers \ {p} : call[q].result.kind = "token" /\ call[q].nTok = 1

\* C3: two getToken() calls that interleave at the network suspension point
\* while the cache holds no valid token each issue their own exchange, each
\* returns the token of its own response, and the cache holds the token and
\* expiry of the response processed last.
C3_ConcurrentExchanges ==
    [][\A p \in Callers :
          /\ (GetToken(p) /\ ExchangeInFlight(p) /\ ~(Truthy(token) /\ now < tokenExpiresAt))
                 => (call'[p].pc = "tokenFetch" /\ call'[p].nTok = 1)
          /\ \A a \in AccessTokens, e \in ExpiresInValues :
                 TokenJsonOf(p, a, e)
                     => /\ call'[p].result = TokenResult(a)
                        /\ token' = a
                        /\ tokenExpiresAt' = ExpiresAt(e)]_vars

C3_Witness ==
    \E p \in Callers, q \in Callers :
        /\ p # q
        /\ call[p].pc = "done" /\ call[q].pc = "done"
        /\ call[q].sawInflight
        /\ call[p].nTok = 1 /\ call[q].nTok = 1
        /\ call[p].result.kind = "token" /\ call[q].result.kind = "token"
        /\ call[p].result.token # call[q].result.token
        /\ token = call[p].result.token

\* C4: when the token exchange answers with a non-success status, getToken()
\* fails with an error that carries the status code and the response body,
\* and the cached token and expiry are what they were.
C4_RejectedExchange ==
    [][\A p \in Callers, errorText \in ErrorBodies :
          (TokenTextOf(p, errorText) /\ call[p].op = "getToken")
              => /\ call'[p].pc = "done"
                 /\ call'[p].result.kind = "AuthError"
                 /\ Includes(call'[p].result.message, StatusText(call[p].status))
                 /\ Includes(call'[p].result.message, errorText)
                 /\ call'[p].nTok = 1
                 /\ token' = token
                 /\ tokenExpiresAt' = tokenExpiresAt]_vars

C4_Witness ==
    \E p \in Callers :
        /\ call[p].op = "getToken" /\ call[p].pc = "done"
        /\ call[p].result.kind = "AuthError" /\ call[p].result.status = 500
        /\ Truthy(token) /\ now < tokenExpiresAt

\* C5 as stated: getToken() never returns a cached token at an instant
\* now >= stored expiry - 60 s, it performs a token exchange instead.
C5_Original ==
    [][\A p \in Callers :
          (GetToken(p) /\ now >= tokenExpiresAt - SafetyMargin)
              => (~call'[p].cached /\ call'[p].pc = "tokenFetch")]_vars

\* C5 amended: the stored expiry already has the 60 s taken off; getToken()
\* never returns a cached token at an instant now >= stored expiry, it
\* performs a token exchange instead.
C5_ExpiredTokenNotReturned ==
    [][\A p \in Callers :
          (GetToken(p) /\ now >= tokenExpiresAt)
              => (~call'[p].cached /\ call'[p].pc = "tokenFetch" /\ call'[p].nTok = 1)]_vars

C5_Witness ==
    \E p \in Callers :
        /\ call[p].pc = "tokenFetch"
        /\ Truthy(token) /\ TruthyTime(tokenExpiresAt) /\ now >= tokenExpiresAt

\* the token the finished getToken() of q returned is still the valid cached one
StillCached(q) ==
    /\ call[q].op = "getToken" /\ call[q].pc = "done" /\ call[q].result.kind = "token"
    /\ token = call[q].result.token
    /\ Truthy(token) /\ now < tokenExpiresAt

\* C6 as stated: two getToken() calls made one after the other, the second
\* before the cached token stops being valid, issue exactly one token
\* exchange in total and return the same token.
C6_Original ==
    [][\A p \in Callers, q \in Callers :
          (GetToken(p) /\ StillCached(q))
              => /\ call[q].nTok + call'[p].nTok = 1
                 /\ call'[p].result = call[q].result]_vars

\* C6 amended: the two calls issue at most one token exchange in total (one
\* when the first call found no valid cached token, none when it returned a
\* cached token itself) and return the same token.
C6_AtMostOneExchange ==
    [][\A p \in Callers, q \in Callers :
          (GetToken(p) /\ StillCached(q))
              => /\ call[q].nTok + call'[p].nTok = (IF call[q].cached THEN 0 ELSE 1)
                 /\ call'[p].result = call[q].result]_vars

C6_Witness ==
    \E p \in Callers, q \in Callers :
        /\ p # q
        /\ StillCached(q) /\ call[q].nTok = 1
        /\ StillCached(p) /\ call[p].cached /\ call[p].nTok = 0

\* C7: after a successful exchange the cache holds the access_token of the
\* response and the expiry (current time) + expires_in - 60 s, expires_in
\* being 3600 s when the response does not carry it; getToken() returns the
\* new token.
C7_StoredExpiry ==
    [][\A p \in Callers, a \in AccessTokens, e \in ExpiresInValues :
          TokenJsonOf(p, a, e)
              => /\ token' = a
                 /\ tokenExpiresAt' =
                        now + (IF e = undefined THEN DefaultExpiresIn ELSE e) * MsPerSecond
                            - SafetyMargin
                 /\ call'[p].tokRet = a]_vars

(***************************************************************************)
(* Properties of the carrier client.                                       *)
(***************************************************************************)
ClientOps ==
    {"request", "searchCities", "getOffices", "calculateDelivery",
     "calculateDeliveryByTariff", "getTariffs", "createOrder"}

CarrierCallInFlight(p) == call[p].pc \in {"apiFetch", "apiText", "apiJson"}

\* the error with which getToken() failed leaves request(): it reaches the
\* caller of the operation, or the catch of getTariffs around its direct GET
LeavesRequest(p, error) ==
    IF call[p].op = "getTariffs" /\ call[p].phase = "direct"
    THEN /\ call'[p].direct = error
         /\ call[p].nApi = 0
         /\ call'[p].phase = "direct" => (call'[p].pc = "done" /\ call'[p].result = error)
         /\ call'[p].nApi = 1 => (call'[p].phase = "fallback" /\ call'[p].cached)
    ELSE /\ call'[p].pc = "done"
         /\ call'[p].result = error
         /\ call'[p].nApi = call[p].nApi

\* C8: a carrier call of request() is preceded, in the same invocation, by a
\* getToken() that succeeded, and carries the token it returned as its
\* authorization unless the caller supplied an Authorization header; when
\* getToken() fails no carrier call is issued and the error reaches the
\* caller.
C8_BearerFromGetToken ==
    /\ [](\A p \in Callers :
             CarrierCallInFlight(p)
                 => /\ call[p].op \in ClientOps
                    /\ call[p].nGet >= 1
                    /\ call[p].tokRet \in AccessTokens
                    /\ call[p].bearer =
                           (IF call[p].hdrAuth = "none" THEN call[p].tokRet ELSE call[p].hdrAuth))
    /\ [][\A p \in Callers :
             /\ \A errorText \in ErrorBodies :
                    (TokenTextOf(p, errorText) /\ call[p].op \in ClientOps)
                        => LeavesRequest(p, AuthError(call[p].status, errorText))
             /\ (TokenFetchRejected(p) /\ call[p].op \in ClientOps)
                    => LeavesRequest(p, FetchError)]_vars

C8_Witness ==
    \E p \in Callers :
        /\ call[p].op = "createOrder" /\ call[p].pc = "apiFetch"
        /\ call[p].nTok = 1 /\ call[p].hdrAuth = "none"
        /\ call[p].bearer = call[p].tokRet /\ call[p].tokRet \in AccessTokens
        /\ token = null

\* C9: no operation retries: searchCities, getOffices, calculateDelivery,
\* calculateDeliveryByTariff, createOrder and request() issue at most one
\* carrier call per invocation and getToken() at most one token exchange;
\* getTariffs is the only operation that issues a second carrier call, and
\* only after its first call failed with a not-found status.
C9_NoRetries ==
    \A p \in Callers :
        /\ call[p].op = "getToken" => (call[p].nTok <= 1 /\ call[p].nApi = 0)
        /\ call[p].op \in ClientOps \ {"getTariffs"} => (call[p].nTok <= 1 /\ call[p].nApi <= 1)
        /\ call[p].nTok <= call[p].nGet
        /\ call[p].nApi >= 2
               => /\ call[p].op = "getTariffs" /\ call[p].nApi = 2
                  /\ call[p].direct.kind = "ApiError" /\ call[p].direct.status = 404

\* C10: when the direct GET of getTariffs fails with anything other than a
\* 404 status, getTariffs does not call calculateDelivery and the same
\* failure propagates to the caller.
C10_OtherFailurePropagates ==
    \A p \in Callers :
        (call[p].op = "getTariffs" /\ call[p].direct.kind # "none" /\ call[p].direct.status # 404)
            => /\ call[p].phase = "direct"
               /\ call[p].pc = "done"
               /\ call[p].result = call[p].direct

(***************************************************************************)
(* The 404 fallback of getTariffs.                                         *)
(***************************************************************************)
\* the direct GET of getTariffs of caller p failed with status 404 and the
\* fallback quote was started
FellBackOn404(p) ==
    /\ call[p].op = "getTariffs" /\ call[p].phase = "fallback"
    /\ call[p].direct.kind = "ApiError" /\ call[p].direct.status = 404

\* the single package of the fallback quote: 1000 g, 10 x 10 x 10 cm
FallbackPackages ==
    <<[weight |-> NumberValue(1000), length |-> NumberValue(10),
       width |-> NumberValue(10), height |-> NumberValue(10)]>>

\* the quote of the fallback failed with this error and nothing else happened
QuoteFailsWith(p, error) ==
    /\ call'[p].pc = "done" /\ call'[p].result = error
    /\ call'[p].nApi = call[p].nApi

\* the parts of C11 that do not depend on the cities: one quote request with
\* the fixed package, the list built from the quote, failures propagate
C11_QuoteAndList ==
    /\ [](\A p \in ClientCallers :
             FellBackOn404(p)
                 => /\ call[p].nApi <= 2
                    /\ call[p].sent.path = "/calculator/tarifflist"
                    /\ call[p].sent.packages = FallbackPackages
                    /\ (call[p].pc = "done" /\ call[p].result.kind = "json")
                           => /\ call[p].nApi = 2
                              /\ Len(call[p].result.data) = Len(call[p].answer.tariff_codes)
                              /\ \A i \in 1..Len(call[p].result.data) :
                                     call[p].result.data[i] = call[p].answer.tariff_codes[i]
                              /\ ~call[p].answer.has => call[p].result.data = <<>>)
    /\ [][\A p \in ClientCallers :
             FellBackOn404(p)
                 => /\ \A errorText \in ErrorBodies :
                           (TokenTextOf(p, errorText) \/ ApiTextOf(p, errorText))
                               => QuoteFailsWith(p, [NoResult EXCEPT
                                      !.kind = IF call[p].pc = "apiText" THEN "ApiError" ELSE "AuthError",
                                      !.status = call[p].status, !.body = errorText,
                                      !.message = call'[p].result.message])
                    /\ (TokenFetchRejected(p) \/ ApiFetchRejected(p))
                           => QuoteFailsWith(p, FetchError)]_vars

\* C11 as stated: after a 404 of the direct GET the one fallback quote goes
\* from city 44 to city 270 with the fixed package, the returned list is
\* built from the tariffs of the quote, and a failure of the quote
\* propagates.
C11_Original ==
    /\ C11_QuoteAndList
    /\ [](\A p \in ClientCallers :
             FellBackOn404(p)
                 => /\ call[p].sent.from_location = StringValue(<<"4", "4">>)
                    /\ call[p].sent.to_location = StringValue(<<"2", "7", "0">>))

\* C11 (amended): after a 404 of the direct GET the one fallback quote goes
\* from options.fromCityCode, or city 44 when that option is missing, to
\* options.toCityCode, or city 270 when that option is missing, with one
\* package of 1000 g and 10x10x10 cm; the returned list is built from the
\* tariffs of the quote, empty when it carries none, and a failure of the
\* quote propagates.
C11_FallbackQuote ==
    /\ C11_QuoteAndList
    /\ [](\A p \in ClientCallers :
             FellBackOn404(p)
                 => /\ call[p].sent.from_location =
                           (CASE call[p].options.fromCityCode = 0 -> StringValue(<<"4", "4">>)
                              [] call[p].options.fromCityCode = 137 -> StringValue(<<"1", "3", "7">>))
                    /\ call[p].sent.to_location =
                           (CASE call[p].options.toCityCode = 0 -> StringValue(<<"2", "7", "0">>)
                              [] call[p].options.toCityCode = 138 -> StringValue(<<"1", "3", "8">>)))

C11_Witness ==
    \E p \in ClientCallers :
        /\ FellBackOn404(p)
        /\ call[p].options = [fromCityCode |-> 0, toCityCode |-> 138]
        /\ call[p].pc = "done" /\ call[p].result.kind = "json"
        /\ Len(call[p].result.data) = 2

\* C12: the list returned by the 404 fallback of getTariffs holds no two
\* entries with the same tariff_code, and every entry has a tariff_code.
C12_Deduplicated ==
    \A p \in ClientCallers :
        (FellBackOn404(p) /\ call[p].pc = "done" /\ call[p].result.kind = "json")
            => /\ \A i, j \in 1..Len(call[p].result.data) :
                      call[p].result.data[i].tariff_code = call[p].result.data[j].tariff_code
                          => i = j
               /\ \A i \in 1..Len(call[p].result.data) :
                      call[p].result.data[i].tariff_code # 0

(***************************************************************************)
(* createOrder.                                                            *)
(***************************************************************************)
\* C14: createOrder with number, tariffCode or recipient.name missing, with
\* the package list missing or empty, or with neither deliveryPoint nor
\* toLocation fails with a validation error before any token exchange and any
\* order POST.
C14_OrderValidatedFirst ==
    \A p \in ClientCallers :
        ( /\ call[p].op = "createOrder"
          /\ call[p].given.incomplete \/ call[p].given.destination = "none" )
            => /\ call[p].pc = "done" /\ call[p].result.kind = "ValidationError"
               /\ call[p].nGet = 0 /\ call[p].nTok = 0 /\ call[p].nApi = 0
               /\ call[p].sent = NoBody

C14_Witness ==
    \E p \in ClientCallers :
        /\ call[p].op = "createOrder" /\ call[p].pc = "done"
        /\ ~call[p].given.incomplete /\ call[p].given.destination = "none"
        /\ call[p].result = ValidationError("deliveryPoint or toLocation is required")
        /\ call[p].nTok = 0 /\ call[p].nApi = 0

C16_OrderDimensionsValidated ==
    \A p \in ClientCallers :
        call[p].op = "createOrder"
            => /\ call[p].given.nonNumeric
                  => /\ call[p].pc = "done" /\ call[p].result.kind = "ValidationError"
                     /\ call[p].nApi = 0
               /\ CarrierCallInFlight(p)
                  => \A i \in 1..Len(call[p].sent.packages) :
                        /\ call[p].sent.packages[i].weight.t = "number"
                        /\ call[p].sent.packages[i].length.t = "number"
                        /\ call[p].sent.packages[i].width.t = "number"
                        /\ call[p].sent.packages[i].height.t = "number"

(***************************************************************************)
(* request(): the error payload, and the location codes of the bodies.     *)
(***************************************************************************)
\* the payload the error of request() carries for an error body of the model
ExpectedPayload(errorText) ==
    CASE errorText = <<"{", "}">> -> <<"{", "}">>
      [] errorText = <<"n", "o", "4", "0", "4">>
             -> <<"{\"message\":\"", "n", "o", "4", "0", "4", "\"}">>

ExpectedStatus(status) ==
    CASE status = 404 -> <<"4", "0", "4">>
      [] status = 500 -> <<"5", "0", "0">>

\* C19: request() fails on a non-success status with an error that carries
\* the status and the payload, which is the parsed error body when it is
\* JSON and {message: rawText} otherwise; on a success status it returns the
\* parsed body and raises nothing.
C19_ErrorPayload ==
    /\ [][\A p \in ClientCallers :
             (call[p].op = "request" /\ call[p].pc \in {"apiText", "apiJson"})
                 => /\ \A errorText \in ErrorBodies :
                           ApiTextOf(p, errorText)
                               => /\ call'[p].pc = "done"
                                  /\ call'[p].result.kind = "ApiError"
                                  /\ call'[p].result.status = call[p].status
                                  /\ call'[p].result.message =
                                         <<"CDEK API Error (">> \o ExpectedStatus(call[p].status)
                                             \o <<"): ">> \o ExpectedPayload(errorText)
                    /\ \A answer \in Answers(call[p]) :
                           ApiJsonOf(p, answer)
                               => /\ call'[p].pc = "done"
                                  /\ call'[p].result.kind = "json"
                                  /\ call'[p].answer = answer]_vars
    /\ [](\A p \in ClientCallers :
             (call[p].op = "request" /\ call[p].pc = "done")
                 => /\ call[p].result.kind = "ApiError"
                           => call[p].result.status \in ErrorStatuses
                    /\ call[p].result.kind = "json" => call[p].status = 200)

C19_Witness ==
    \E p \in ClientCallers :
        /\ call[p].op = "request" /\ call[p].pc = "done"
        /\ call[p].result.kind = "ApiError" /\ call[p].result.status = 500
        /\ call[p].result.message =
               <<"CDEK API Error (", "5", "0", "0", "): ", "{", "}">>

\* C20: whether a location code is supplied as a number or as a string, the
\* bodies of calculateDelivery, calculateDeliveryByTariff and createOrder
\* hold from_location.code and to_location.code as strings.
C20_CodesAreStrings ==
    \A p \in ClientCallers :
        /\ (call[p].op \in {"calculateDelivery", "calculateDeliveryByTariff"}
                /\ call[p].sent # NoBody)
               => /\ call[p].sent.from_location = StringValue(<<"4", "4">>)
                  /\ call[p].sent.to_location = StringValue(<<"2", "7", "0">>)
        /\ (call[p].op = "createOrder" /\ call[p].sent # NoBody)
               => /\ call[p].sent.from_location = UndefinedValue
                  /\ call[p].sent.to_location \in {UndefinedValue, StringValue(<<"2", "7", "0">>)}

C20_Witness ==
    /\ \E p \in ClientCallers :
           /\ call[p].op = "calculateDeliveryByTariff" /\ call[p].pc = "apiFetch"
           /\ call[p].sent.from_location = StringValue(<<"4", "4">>)
           /\ call[p].sent.to_location = StringValue(<<"2", "7", "0">>)
    /\ NumberValue(44) \in FromCodes /\ NumberValue(270) \in ToCodes

(***************************************************************************)
(* The quotes and the route POST /calculate-by-tariff.                     *)
(***************************************************************************)
RouteFrame(p) == call[p].op = "POST /calculate-by-tariff"

\* the part of C13 about the two operations of the client
C13_ClientQuotes ==
    \A p \in ClientCallers :
        (call[p].op \in {"calculateDelivery", "calculateDeliveryByTariff"} /\ call[p].given.nonNumeric)
            => /\ call[p].pc = "done" /\ call[p].result.kind = "ValidationError"
               /\ call[p].nGet = 0 /\ call[p].nTok = 0 /\ call[p].nApi = 0

\* C13: an all-tariffs or single-tariff quote with a package whose weight,
\* length, width or height is not numeric fails with a validation error, and
\* no token exchange, pickup-point lookup or quote call was issued before
\* that failure.
C13_DimensionsBeforeNetwork ==
    /\ []C13_ClientQuotes
    /\ [](\A p \in ClientCallers :
             (RouteFrame(p) /\ NonNumeric(call[p].req.weight) /\ call[p].req.tariffCode # 0)
                 => /\ call[p].pc = "done"
                    /\ call[p].result.status \in {400, 500}
                    /\ call[p].nGet = 0 /\ call[p].nTok = 0 /\ call[p].nApi = 0)

\* the steps in which a request() of caller p throws
RequestThrows(p) ==
    \/ TokenFetchRejected(p)
    \/ ApiFetchRejected(p)
    \/ \E errorText \in ErrorBodies : TokenTextOf(p, errorText) \/ ApiTextOf(p, errorText)

\* C17: for the warehouse-to-warehouse tariff, a failure of a pickup-point
\* lookup, from the token exchange or from the carrier, does not end the
\* route: the handler goes on to the next lookup or to the quote without the
\* point, and the outcome of the route is always that of the quote.
C17_LookupFailureAbsorbed ==
    /\ [][\A p \in ClientCallers :
             (RouteFrame(p) /\ call[p].phase \in {"from", "to"} /\ RequestThrows(p))
                 => /\ call'[p].phase \in {"to", "quote"}
                    /\ call'[p].phase # call[p].phase
                    /\ call[p].phase \in call'[p].failed
                    /\ call'[p].finalShipmentPoint = call[p].finalShipmentPoint
                    /\ call'[p].finalDeliveryPoint = call[p].finalDeliveryPoint
                    /\ call[p].phase = "from" => ~TruthyValue(call'[p].finalShipmentPoint)
                    /\ call[p].phase = "to" => ~TruthyValue(call'[p].finalDeliveryPoint)
                    /\ call'[p].result.kind \notin {"AuthError", "ApiError", "FetchError"}]_vars
    /\ [](\A p \in ClientCallers :
             (RouteFrame(p) /\ call[p].failed # {})
                 => /\ call[p].req.tariffCode = 751
                    /\ call[p].pc = "done" => call[p].phase = "quote"
                    /\ (call[p].phase = "quote" /\ call[p].sent.path = "/calculator/tariff")
                           => /\ "from" \in call[p].failed
                                 => call[p].sent.shipment_point = UndefinedValue
                              /\ "to" \in call[p].failed
                                 => call[p].sent.delivery_point = UndefinedValue)

C17_Witness ==
    \E p \in ClientCallers :
        /\ RouteFrame(p) /\ call[p].req.tariffCode = 751
        /\ call[p].failed = {"from"}
        /\ call[p].phase = "quote" /\ call[p].pc = "apiFetch"
        /\ call[p].sent.shipment_point = UndefinedValue

\* `point` is the point discovery selects from a non-empty list of offices
IsSelection(point, offices) ==
    \/ \E i \in 1..Len(offices) :
           /\ offices[i].is_ltl /\ point = offices[i].code
           /\ \A j \in 1..(i - 1) : ~offices[j].is_ltl
    \/ /\ \A i \in 1..Len(offices) : ~offices[i].is_ltl
       /\ point = offices[1].code

\* C18: from a non-empty lookup result discovery takes the first point with
\* the LTL flag, or the first point when none has it, and takes nothing from
\* an empty result; the code taken is the shipment_point, or the
\* delivery_point, sent with the quote.
C18_PointSelection ==
    /\ [][\A p \in ClientCallers :
             (RouteFrame(p) /\ call[p].phase \in {"from", "to"} /\ call[p].pc = "apiJson")
                 => \A answer \in OfficeAnswers :
                       ApiJsonOf(p, answer)
                           => LET point == IF call[p].phase = "from"
                                           THEN call'[p].finalShipmentPoint
                                           ELSE call'[p].finalDeliveryPoint IN
                              /\ answer.offices = <<>> => point = UndefinedValue
                              /\ answer.offices # <<>> => IsSelection(point, answer.offices)
                              /\ call[p].phase = "from"
                                     => call'[p].finalDeliveryPoint = call[p].finalDeliveryPoint
                              /\ call[p].phase = "to"
                                     => call'[p].finalShipmentPoint = call[p].finalShipmentPoint]_vars
    /\ [](\A p \in ClientCallers :
             (RouteFrame(p) /\ call[p].phase = "quote"
                            /\ call[p].sent.path = "/calculator/tariff")
                 => /\ call[p].sent.shipment_point = call[p].finalShipmentPoint
                    /\ call[p].sent.delivery_point = call[p].finalDeliveryPoint)

C18_Witness ==
    \E p \in ClientCallers :
        /\ RouteFrame(p) /\ call[p].req.tariffCode = 751 /\ call[p].req.toAddress = "addr"
        /\ call[p].req.shipmentPoint = UndefinedValue
        /\ call[p].phase = "quote" /\ call[p].pc = "apiFetch"
        /\ Len(call[p].answer.offices) = 3 /\ ~call[p].answer.offices[1].is_ltl
        /\ call[p].sent.shipment_point = StringValue(<<"B">>)


(***************************************************************************)
(* The minimal body of calculateDelivery.                                  *)
(***************************************************************************)
\* a body of POST /calculator/tarifflist with these codes and packages and
\* nothing else
MinimalBody(fromCode, toCode, packages) ==
    [ path           |-> "/calculator/tarifflist",
      from_location  |-> fromCode,
      from_address   |-> "",
      to_location    |-> toCode,
      to_address     |-> "",
      packages       |-> packages,
      shipment_point |-> UndefinedValue,
      delivery_point |-> UndefinedValue,
      members        |-> {} ]

\* C21: the body calculateDelivery sends holds the two location codes and
\* the packages and nothing else, whatever address, date, type, currency or
\* lang the caller passed: the body is determined by the codes and the
\* packages alone, so the same inputs give the same body.
C21_MinimalBody ==
    \A p \in ClientCallers :
        (call[p].op = "calculateDelivery" /\ call[p].sent # NoBody)
            => /\ call[p].sent = MinimalBody(StringValue(<<"4", "4">>),
                                             StringValue(<<"2", "7", "0">>),
                                             call[p].sent.packages)
               /\ \A i \in 1..Len(call[p].sent.packages) :
                      DOMAIN call[p].sent.packages[i] = {"weight", "length", "width", "height"}

C21_Witness ==
    \E p \in ClientCallers :
        /\ call[p].op = "calculateDelivery" /\ call[p].given.beyond
        /\ call[p].pc = "apiFetch" /\ call[p].nApi = 1
        /\ call[p].sent.path = "/calculator/tarifflist"


(***************************************************************************)
(* The construction of the client.                                         *)
(***************************************************************************)
\* a variable of the environment that is missing or empty
Unset(v) == v \in {"undefined", ""}

\* no operation of the client was ever invoked
NothingInvoked == \A p \in Callers : call[p] = Fresh("none")

\* C22: a construction with the base URL, the account or the password
\* missing or empty throws a configuration error and leaves no client, so
\* nothing is ever invoked and no token exchange is issued; a construction
\* with all three present succeeds and leaves the cache with no token and no
\* expiry.
C22_ConstructionValidated ==
    /\ client.state = "none" => NothingInvoked
    /\ client.state = "failed"
           => /\ Unset(client.apiUrl) \/ Unset(client.account) \/ Unset(client.securePassword)
              /\ client.error # ""
              /\ NothingInvoked
              /\ token = "undefined"
    /\ client.state = "built"
           => /\ ~Unset(client.apiUrl) /\ ~Unset(client.account) /\ ~Unset(client.securePassword)
              /\ client.error = ""
              /\ (NothingInvoked /\ sinceReset = "na")
                     => (token = null /\ tokenExpiresAt = nullTime)
    /\ \A p \in Callers :
           call[p].nTok > 0
               => /\ client.state = "built"
                  /\ ~Unset(client.apiUrl) /\ ~Unset(client.account)
                  /\ ~Unset(client.securePassword)

C22_Witness ==
    /\ client.state = "failed"
    /\ client.apiUrl = "set" /\ client.account = "set" /\ client.securePassword = ""
    /\ client.error = "CDEK_SECURE_PASSWORD is not set"


(***************************************************************************)
(* The pairing of the cached token and the cached expiry.                  *)
(***************************************************************************)
\* the lifetimes, in milliseconds, the code derives from the expires_in of
\* a response
Lifetimes == {3600000, 90000, 150000}

\* caller p reads the body of a successful exchange in this step
ReadsResponse(p) == call[p].pc = "tokenJson" /\ call'[p].pc = "done"

\* C23: under every interleaving of getToken() and resetToken() the cache
\* holds a token exactly when it holds an expiry, and every step that changes
\* the cached token or the cached expiry either empties both or stores both
\* from the one response read in that step: the token that response carried
\* and an expiry computed from it at that instant.
C23_TokenAndExpiryPaired ==
    /\ [](token = null <=> tokenExpiresAt = nullTime)
    /\ [][(token' # token \/ tokenExpiresAt' # tokenExpiresAt)
              => \/ token' = null /\ tokenExpiresAt' = nullTime
                 \/ \E p \in Callers :
                        /\ ReadsResponse(p)
                        /\ token' \in AccessTokens
                        /\ call'[p].result.token = token'
                        /\ (tokenExpiresAt' - now + SafetyMargin) \in Lifetimes]_vars

\* a response was stored over a token and an expiry that an earlier response
\* had left, at a later instant
C23_Witness ==
    \E p \in Callers, q \in Callers :
        /\ p # q
        /\ call[p].op = "getToken" /\ call[p].pc = "done" /\ call[p].nTok = 1
        /\ call[q].op = "getToken" /\ call[q].pc = "done" /\ call[q].nTok = 1
        /\ call[p].result.kind = "token" /\ call[q].result.kind = "token"
        /\ call[p].result.token # call[q].result.token
        /\ token = call[q].result.token
        /\ tokenExpiresAt = now + 90000 - SafetyMargin
        /\ now > StartNow


(***************************************************************************)
(* The guards of the pickup-point lookups of the route.                    *)
(***************************************************************************)
\* C24: the route looks no pickup point up for a tariff other than 751; a
\* shipment or delivery point the caller supplied is never looked up and is
\* the one that goes into the quote; and the delivery point is looked up
\* only when the caller supplied neither a delivery point nor a destination
\* address.
C24_LookupsGuarded ==
    \A p \in ClientCallers :
        RouteFrame(p)
            => /\ call[p].phase \in {"from", "to"}
                      <=> (call[p].pc \notin {"idle", "done"}
                              /\ call[p].sent.path = "/deliverypoints")
               /\ call[p].failed \subseteq {"from", "to"}
               /\ call[p].req.tariffCode # 751
                      => /\ call[p].phase \notin {"from", "to"}
                         /\ call[p].failed = {}
                         /\ call[p].nApi <= 1
                         /\ call[p].finalShipmentPoint = call[p].req.shipmentPoint
                         /\ call[p].finalDeliveryPoint = call[p].req.deliveryPoint
               /\ call[p].req.shipmentPoint # UndefinedValue
                      => /\ call[p].phase # "from" /\ "from" \notin call[p].failed
                         /\ call[p].finalShipmentPoint = call[p].req.shipmentPoint
                         /\ call[p].sent.path = "/calculator/tariff"
                                => call[p].sent.shipment_point = call[p].req.shipmentPoint
               /\ call[p].req.deliveryPoint # UndefinedValue
                      => /\ call[p].phase # "to" /\ "to" \notin call[p].failed
                         /\ call[p].finalDeliveryPoint = call[p].req.deliveryPoint
                         /\ call[p].sent.path = "/calculator/tariff"
                                => call[p].sent.delivery_point = call[p].req.deliveryPoint
               /\ call[p].req.toAddress # ""
                      => /\ call[p].phase # "to" /\ "to" \notin call[p].failed
                         /\ call[p].finalDeliveryPoint = call[p].req.deliveryPoint

\* a quote of tariff 751 issued with the shipment point the caller supplied
\* and, the caller having given an address and no delivery point, with no
\* lookup before it
C24_Witness ==
    \E p \in ClientCallers :
        /\ RouteFrame(p) /\ call[p].req.tariffCode = 751
        /\ call[p].req.shipmentPoint = StringValue(<<"MSK5">>)
        /\ call[p].req.deliveryPoint = UndefinedValue /\ call[p].req.toAddress = "addr"
        /\ call[p].phase = "quote" /\ call[p].pc = "apiFetch" /\ call[p].nApi = 1
        /\ call[p].sent.shipment_point = StringValue(<<"MSK5">>)
        /\ call[p].sent.delivery_point = UndefinedValue

====
